---- MODULE Spec2Model ----
(***************************************************************************)
(* Model of src/pong.tsx: the Pong React component.  The React state of   *)
(* the component (session flags, score, winner), the closure state of the *)
(* game-loop effect (ball, paddles, key flags, particles) and the         *)
(* handlers that change them.  A state update together with the commit    *)
(* React performs for it (effect cleanups, effect bodies, the updates     *)
(* those bodies make) is one step.                                        *)
(*                                                                         *)
(* Numbers are IEEE-754 doubles, as in JavaScript.  A double v is held     *)
(* exactly as <<i, a, b, c>> with v = i + (a*2^40 + b*2^20 + c) / 2^60,    *)
(* i = floor(v) and 0 <= a, b, c < 2^20.  Every double the game computes   *)
(* is a multiple of 2^-60 below 1024 in magnitude, so the encoding is      *)
(* exact, and FAdd/FSub round the exact result to 53 significant bits,     *)
(* ties to even, as the hardware does.                                     *)
(***************************************************************************)
EXTENDS Integers, Sequences, FiniteSets, TLC

\* ------------------------------------------------------------------ bounds
\* Key events are explored during the first KeyWindow frames of a run, and
\* at most MaxKeyEvents of them.
KeyWindow == 1
MaxKeyEvents == 2
\* Frames are explored until MaxPoints points have been scored in one run.
MaxPoints == 2
\* While the loop runs, clicks and Escape are explored once every
\* InputPeriod frames.
InputPeriod == 500
\* Key events in the middle of a rally are explored after this many frames.
LateFrame == 1001

\* ------------------------------------------------------- double arithmetic
Limb == 2^20

\* Carry propagation: the limbs brought back into 0 .. Limb - 1.
Norm1(i, a, b, c) == <<i + (a \div Limb), a % Limb, b, c>>
Norm2(i, a, b, c) == Norm1(i, a + (b \div Limb), b % Limb, c)
Norm(i, a, b, c) == Norm2(i, a, b + (c \div Limb), c % Limb)

FNeg(x) == Norm(-x[1], -x[2], -x[3], -x[4])
FAbs(x) == IF x[1] >= 0 THEN x ELSE FNeg(x)

RECURSIVE Log2(_)
Log2(n) == IF n < 2 THEN 0 ELSE 1 + Log2(n \div 2)

\* The exponent p of m >= 0: 2^p <= m < 2^(p+1); -100 stands for p < -20.
ExponentOf(m) ==
  IF m[1] >= 1 THEN Log2(m[1])
  ELSE IF m[2] >= 1 THEN Log2(m[2]) - 20
  ELSE -100
Exponent(v) == ExponentOf(FAbs(v))

\* Round an exact value to the nearest double (53 significant bits, ties to
\* even).  The unit in the last place of a value in [2^p, 2^(p+1)) is
\* 2^(p-52), that is 2^k units of 2^-60 with k = p + 8; r is what the value
\* has below that unit.
RoundTo(v, k, r) ==
  IF r = 0 THEN v
  ELSE IF r > 2^(k-1) \/ (r = 2^(k-1) /\ (v[4] \div (2^k)) % 2 = 1)
    THEN Norm(v[1], v[2], v[3], v[4] - r + 2^k)
  ELSE Norm(v[1], v[2], v[3], v[4] - r)
RoundAt(v, k) == IF k <= 0 THEN v ELSE RoundTo(v, k, v[4] % (2^k))
Round53(v) == RoundAt(v, Exponent(v) + 8)

\* x + y; a double plus zero is that double, no rounding takes place.
FAdd(x, y) ==
  IF y = <<0, 0, 0, 0>> THEN x
  ELSE Round53(Norm(x[1] + y[1], x[2] + y[2], x[3] + y[3], x[4] + y[4]))
FSub(x, y) == Round53(Norm(x[1] - y[1], x[2] - y[2], x[3] - y[3], x[4] - y[4]))
FLt(x, y) ==
  \/ x[1] < y[1]
  \/ x[1] = y[1] /\ x[2] < y[2]
  \/ x[1] = y[1] /\ x[2] = y[2] /\ x[3] < y[3]
  \/ x[1] = y[1] /\ x[2] = y[2] /\ x[3] = y[3] /\ x[4] < y[4]
FGt(x, y) == FLt(y, x)
FInt(n) == <<n, 0, 0, 0>>

\* ---------------------------------------------------------------- literals
Zero == FInt(0)
BallSpeed == <<0, 314572, 838860, 838848>>       \* 0.3
PaddleSpeed == <<0, 419430, 419430, 419456>>     \* 0.4
Decay == <<0, 5242, 922746, 922747>>             \* 0.005
Half == <<0, 524288, 0, 0>>                      \* 0.5
Tenth == <<0, 104857, 629145, 629152>>           \* 0.1 = 0.5 * 0.2
Width == 800
Height == 600
Radius == 8
paddleHeight == 100
paddleWidth == 10
WinScore == 15
WallBurst == 10
PaddleBurst == 15

NULL == "null"
Keys == {"w", "s", "ArrowUp", "ArrowDown"}

VARIABLES gameStarted, gamePaused, showControls, showSettings, showPauseMenu,
          score, winner,
          running, ball, paddle1, paddle2, keys, particles,
          seen, frame, ticks, points, keyEvents

flags == <<gameStarted, gamePaused, showControls, showSettings, showPauseMenu>>
sim == <<ball, paddle1, paddle2, particles>>
vars == <<gameStarted, gamePaused, showControls, showSettings, showPauseMenu,
          score, winner, running, ball, paddle1, paddle2, keys, particles,
          seen, frame, ticks, points, keyEvents>>

\* ------------------------------------------------------------ game objects
\* Values of Math.random() the model draws from.
RandomDraws == {Half}
MaxDraws == 2 * (WallBurst + PaddleBurst)
DrawSeqs == [1..MaxDraws -> RandomDraws]

\* d * 0.2 for the differences Math.random() - 0.5 the draws produce; both
\* products are exact in double arithmetic.
Times02(d) == IF d = Zero THEN Zero ELSE FNeg(Tenth)

Ball0 == [x |-> FInt(Width \div 2), y |-> FInt(Height \div 2),
          dx |-> BallSpeed, dy |-> BallSpeed]
Paddle0 == [y |-> FInt(Height \div 2 - paddleHeight \div 2)]
Keys0 == [k \in Keys |-> FALSE]
Fresh == [ball |-> Ball0, paddle1 |-> Paddle0, paddle2 |-> Paddle0,
          particles |-> <<>>]

\* createParticles(x, y, count), drawing from d starting after index off.
createParticles(ps, x, y, count, d, off) ==
  ps \o [n \in 1..count |->
           [x |-> x, y |-> y,
            dx |-> Times02(FSub(d[off + 2*n - 1], Half)),
            dy |-> Times02(FSub(d[off + 2*n], Half)),
            life |-> FInt(1)]]

\* The filter body of updateParticles without the decrement of life.
AdvanceParticleNoDecay(p) ==
  [x |-> FAdd(p.x, p.dx), y |-> FAdd(p.y, p.dy), dx |-> p.dx, dy |-> p.dy,
   life |-> p.life]

AdvanceParticle(p) ==
  [x |-> FAdd(p.x, p.dx), y |-> FAdd(p.y, p.dy), dx |-> p.dx, dy |-> p.dy,
   life |-> FSub(p.life, Decay)]

updateParticles(ps) ==
  LET moved == [n \in 1..Len(ps) |-> AdvanceParticle(ps[n])]
  IN  SelectSeq(moved, LAMBDA p : FGt(p.life, Zero))

MovePaddle(y, up, down) ==
  LET y1 == IF up /\ FGt(y, Zero) THEN FSub(y, PaddleSpeed) ELSE y
  IN  IF down /\ FLt(y1, FInt(Height - paddleHeight))
        THEN FAdd(y1, PaddleSpeed) ELSE y1

HitsWall(y) ==
  \/ FGt(FAdd(y, FInt(Radius)), FInt(Height))
  \/ FLt(FSub(y, FInt(Radius)), Zero)

HitsPaddle(x, y, p1, p2) ==
  \/ /\ FLt(FSub(x, FInt(Radius)), FInt(paddleWidth))
     /\ FGt(y, p1)
     /\ FLt(y, FAdd(p1, FInt(paddleHeight)))
  \/ /\ FGt(FAdd(x, FInt(Radius)), FInt(Width - paddleWidth))
     /\ FGt(y, p2)
     /\ FLt(y, FAdd(p2, FInt(paddleHeight)))

CrossesLeft(x) == FLt(FAdd(x, FInt(Radius)), Zero)
CrossesRight(x) == FGt(FSub(x, FInt(Radius)), FInt(Width))

\* The blocks of update(), each on the loop state s it is given.
\* "Move paddles", with the key flags k.
MovePaddles(s, k) ==
  [s EXCEPT !.paddle1.y = MovePaddle(@, k["w"], k["s"]),
            !.paddle2.y = MovePaddle(@, k["ArrowUp"], k["ArrowDown"])]

\* "Move ball".
MoveBall(s) ==
  [s EXCEPT !.ball.x = FAdd(@, s.ball.dx), !.ball.y = FAdd(@, s.ball.dy)]

\* "Wall collision" tested on the centre of the ball.
WallCollisionCentre(s, d) ==
  IF FGt(s.ball.y, FInt(Height)) \/ FLt(s.ball.y, Zero)
    THEN [s EXCEPT !.ball.dy = FNeg(@),
                   !.particles = createParticles(@, s.ball.x, s.ball.y,
                                                 WallBurst, d, 0)]
  ELSE s

\* "Wall collision", with the draws d of its burst.
WallCollision(s, d) ==
  IF HitsWall(s.ball.y)
    THEN [s EXCEPT !.ball.dy = FNeg(@),
                   !.particles = createParticles(@, s.ball.x, s.ball.y,
                                                 WallBurst, d, 0)]
  ELSE s

\* "Paddle collision" that doubles the horizontal speed with each hit.
PaddleCollisionFaster(s, d) ==
  IF HitsPaddle(s.ball.x, s.ball.y, s.paddle1.y, s.paddle2.y)
    THEN [s EXCEPT !.ball.dx = FNeg(FAdd(@, @)),
                   !.particles = createParticles(@, s.ball.x, s.ball.y,
                                                 PaddleBurst, d, 2 * WallBurst)]
  ELSE s

\* "Paddle collision", with the draws d of its burst.
PaddleCollision(s, d) ==
  IF HitsPaddle(s.ball.x, s.ball.y, s.paddle1.y, s.paddle2.y)
    THEN [s EXCEPT !.ball.dx = FNeg(@),
                   !.particles = createParticles(@, s.ball.x, s.ball.y,
                                                 PaddleBurst, d, 2 * WallBurst)]
  ELSE s

\* "Score points" with the two counters exchanged.
ScorePointsSwapped(s) ==
  IF CrossesLeft(s.ball.x)
    THEN [ball |-> [x |-> FInt(Width \div 2), y |-> FInt(Height \div 2),
                    dx |-> BallSpeed, dy |-> s.ball.dy],
          paddle1 |-> s.paddle1, paddle2 |-> s.paddle2,
          particles |-> s.particles, scored |-> "player1"]
  ELSE IF CrossesRight(s.ball.x)
    THEN [ball |-> [x |-> FInt(Width \div 2), y |-> FInt(Height \div 2),
                    dx |-> FNeg(BallSpeed), dy |-> s.ball.dy],
          paddle1 |-> s.paddle1, paddle2 |-> s.paddle2,
          particles |-> s.particles, scored |-> "player2"]
  ELSE [ball |-> s.ball, paddle1 |-> s.paddle1, paddle2 |-> s.paddle2,
        particles |-> s.particles, scored |-> "none"]

\* "Score points"; scored names the counter the setScore call increments.
ScorePoints(s) ==
  IF CrossesLeft(s.ball.x)
    THEN [ball |-> [x |-> FInt(Width \div 2), y |-> FInt(Height \div 2),
                    dx |-> BallSpeed, dy |-> s.ball.dy],
          paddle1 |-> s.paddle1, paddle2 |-> s.paddle2,
          particles |-> s.particles, scored |-> "player2"]
  ELSE IF CrossesRight(s.ball.x)
    THEN [ball |-> [x |-> FInt(Width \div 2), y |-> FInt(Height \div 2),
                    dx |-> FNeg(BallSpeed), dy |-> s.ball.dy],
          paddle1 |-> s.paddle1, paddle2 |-> s.paddle2,
          particles |-> s.particles, scored |-> "player1"]
  ELSE [ball |-> s.ball, paddle1 |-> s.paddle1, paddle2 |-> s.paddle2,
        particles |-> s.particles, scored |-> "none"]

\* The closing updateParticles() call.
DecayParticles(s) == [s EXCEPT !.particles = updateParticles(@)]

\* update() with the particles advanced before the physics of the frame.
updateAdvanceFirst(s, k, d) ==
  ScorePoints(PaddleCollision(WallCollision(
    MoveBall(MovePaddles(DecayParticles(s), k)), d), d))

\* update(): one frame on the loop state s with key flags k and draws d.
update(s, k, d) ==
  DecayParticles(ScorePoints(PaddleCollision(WallCollision(
    MoveBall(MovePaddles(s, k)), d), d)))

ZeroScore == [player1 |-> 0, player2 |-> 0]

Loop == [ball |-> ball, paddle1 |-> paddle1, paddle2 |-> paddle2,
         particles |-> particles]

TypeOK ==
  /\ gameStarted \in BOOLEAN /\ gamePaused \in BOOLEAN
  /\ showControls \in BOOLEAN /\ showSettings \in BOOLEAN
  /\ showPauseMenu \in BOOLEAN /\ running \in BOOLEAN
  /\ score.player1 \in Nat /\ score.player2 \in Nat
  /\ winner \in {NULL, "Player 1", "Player 2"}
  /\ keys \in [Keys -> BOOLEAN]

\* ------------------------------------------------------------------- Init
Init ==
  /\ gameStarted = FALSE /\ gamePaused = FALSE /\ showControls = FALSE
  /\ showSettings = FALSE /\ showPauseMenu = FALSE
  /\ score = ZeroScore
  /\ winner = NULL
  /\ running = FALSE
  /\ ball = Ball0 /\ paddle1 = Paddle0 /\ paddle2 = Paddle0
  /\ keys = Keys0 /\ particles = <<>>
  /\ seen = Fresh /\ frame = 0 /\ ticks = 0 /\ points = 0 /\ keyEvents = 0

\* ---------------------------------------------------------------- effects
\* The winner effect with the threshold tested by > instead of >=.
CheckWinnerLate(sc) ==
  IF sc.player1 > WinScore THEN "Player 1"
  ELSE IF sc.player2 > WinScore THEN "Player 2"
  ELSE NULL

\* The winner names exchanged.
CheckWinnerSwapped(sc) ==
  IF sc.player1 >= WinScore THEN "Player 2"
  ELSE IF sc.player2 >= WinScore THEN "Player 1"
  ELSE NULL

\* The winner the "Check for winner" effect records for score sc.
CheckWinner(sc) ==
  IF sc.player1 >= WinScore THEN "Player 1"
  ELSE IF sc.player2 >= WinScore THEN "Player 2"
  ELSE NULL

\* gameStarted is left as it is when a winner is recorded.
StartedKept(gs, won) == gs

\* gameStarted after the winner effect recorded won: setGameStarted(false)
\* accompanies every setWinner call.
StartedAfterWinner(gs, won) == IF won # NULL THEN FALSE ELSE gs

\* update() calls since the start of the run, counted up to KeyWindow + 1.
Tick(t) == IF t <= KeyWindow THEN t + 1 ELSE t

\* The key events counted against MaxKeyEvents: those of the key window, the
\* count being dropped once frame count t is past the window.
Budget(t, n) == IF t > KeyWindow THEN 0 ELSE n

\* Clicks and Escape are explored in these states.
InputSlot == ~running \/ frame % InputPeriod = 1

\* The body of the game-loop effect past its early return: the game objects
\* and the key flags are created, and gameLoop() is called once, with the
\* draws d.  t is the frame count so far; runs tells whether the loop is
\* still scheduled when the commit is over.
StartLoop(d, t, runs) ==
  \E u \in {update(Fresh, Keys0, d)} :
    /\ ball' = u.ball /\ paddle1' = u.paddle1
    /\ paddle2' = u.paddle2 /\ particles' = u.particles
    /\ keys' = Keys0
    /\ seen' = Fresh
    /\ frame' = 1
    /\ ticks' = Tick(t)
    /\ running' = runs

\* The commit React performs after a handler left gameStarted = gs,
\* gamePaused = gp, score = sc and winner = wn; scoreSet says that setScore
\* was called (a new score object), keep is the loop state left behind when
\* the game-loop effect does not start again.
\*   1. the game-loop effect is cleaned up and run again when one of its
\*      dependencies changed; its body returns early unless gs /\ ~gp, and
\*      otherwise creates the game objects and calls gameLoop() once;
\*   2. the winner effect runs when the score object changed; when it
\*      records a winner it sets gameStarted to false, and the commit of
\*      that update cleans the game-loop effect up.
Commit(gs, gp, sc, wn, scoreSet, keep, keepSeen, keepFrame, keepTicks, d) ==
  LET loopChanged == \/ gs # gameStarted \/ gp # gamePaused
                     \/ sc.player1 # score.player1
                     \/ sc.player2 # score.player2
      won == IF scoreSet THEN CheckWinner(sc) ELSE NULL
      gs2 == StartedAfterWinner(gs, won)
      starts == loopChanged /\ gs /\ ~gp
  IN  /\ gameStarted' = gs2
      /\ gamePaused' = gp
      /\ score' = sc
      /\ winner' = IF won # NULL THEN won ELSE wn
      /\ IF starts
           THEN StartLoop(d, keepTicks, gs2)
           ELSE /\ ball' = keep.ball /\ paddle1' = keep.paddle1
                /\ paddle2' = keep.paddle2 /\ particles' = keep.particles
                /\ keys' = keys
                /\ seen' = keepSeen
                /\ frame' = keepFrame
                /\ ticks' = keepTicks
                /\ running' = IF loopChanged \/ gs2 # gs THEN FALSE
                              ELSE running
      /\ keyEvents' = Budget(ticks', keyEvents)

\* --------------------------------------------------------------- handlers
\* requestAnimationFrame callback: gameLoop() of the running effect.
Frame ==
  /\ running
  /\ points < MaxPoints
  /\ \E d \in DrawSeqs, cur \in {Loop} : \E u \in {update(cur, keys, d)} :
       LET next == [ball |-> u.ball, paddle1 |-> u.paddle1,
                    paddle2 |-> u.paddle2, particles |-> u.particles]
       IN  IF u.scored = "none"
             THEN /\ ball' = u.ball /\ paddle1' = u.paddle1
                  /\ paddle2' = u.paddle2 /\ particles' = u.particles
                  /\ seen' = cur
                  /\ frame' = frame + 1
                  /\ ticks' = Tick(ticks)
                  /\ keyEvents' = Budget(ticks', keyEvents)
                  /\ UNCHANGED <<gameStarted, gamePaused, score, winner,
                                 running, keys, points>>
             ELSE /\ points' = points + 1
                  /\ Commit(gameStarted, gamePaused,
                            [score EXCEPT ![u.scored] = @ + 1],
                            winner, TRUE, next, cur, frame + 1, Tick(ticks), d)
  /\ UNCHANGED <<showControls, showSettings, showPauseMenu>>

\* handleKeyDown for Escape.
PressEscape ==
  /\ running /\ InputSlot
  /\ showPauseMenu' = TRUE
  /\ \E d \in DrawSeqs :
       Commit(gameStarted, TRUE, score, winner, FALSE, Loop, seen, frame, ticks, d)
  /\ UNCHANGED <<showControls, showSettings, points>>

\* handleKeyDown without the test that the key is tracked: an untracked key
\* is taken for the first tracked one.
KeyDownUnchecked(k) ==
  /\ running
  /\ ticks <= KeyWindow /\ keyEvents < MaxKeyEvents
  /\ keys' = IF k \in Keys THEN [keys EXCEPT ![k] = TRUE]
             ELSE [keys EXCEPT !["w"] = TRUE]
  /\ keyEvents' = keyEvents + 1
  /\ UNCHANGED <<gameStarted, gamePaused, showControls, showSettings,
                 showPauseMenu, score, winner, running, ball, paddle1,
                 paddle2, particles, seen, frame, ticks, points>>

\* handleKeyDown for any other key; "x" stands for the untracked keys.
KeyDown(k) ==
  /\ running
  /\ ticks <= KeyWindow /\ keyEvents < MaxKeyEvents
  /\ keys' = IF k \in Keys THEN [keys EXCEPT ![k] = TRUE] ELSE keys
  /\ keyEvents' = keyEvents + 1
  /\ UNCHANGED <<gameStarted, gamePaused, showControls, showSettings,
                 showPauseMenu, score, winner, running, ball, paddle1,
                 paddle2, particles, seen, frame, ticks, points>>

KeyUp(k) ==
  /\ running
  /\ ticks <= KeyWindow /\ keyEvents < MaxKeyEvents
  /\ keys' = IF k \in Keys THEN [keys EXCEPT ![k] = FALSE] ELSE keys
  /\ keyEvents' = keyEvents + 1
  /\ UNCHANGED <<gameStarted, gamePaused, showControls, showSettings,
                 showPauseMenu, score, winner, running, ball, paddle1,
                 paddle2, particles, seen, frame, ticks, points>>

\* handleStart without its first branch: every click starts the game.
HandleStartAtOnce ==
  /\ (~gameStarted /\ ~showSettings) \/ winner # NULL
  /\ InputSlot
  /\ showControls' = FALSE
  /\ showPauseMenu' = FALSE
  /\ \E d \in DrawSeqs :
       Commit(TRUE, FALSE, ZeroScore, NULL, TRUE, Loop, seen, frame, ticks, d)
  /\ UNCHANGED <<showSettings, points>>

\* handleStart, bound to "Play Pong" / "Start Game" and to "Play Again".
HandleStart ==
  /\ (~gameStarted /\ ~showSettings) \/ winner # NULL
  /\ InputSlot
  /\ IF ~gameStarted /\ ~showControls
       THEN /\ showControls' = TRUE
            /\ UNCHANGED <<gameStarted, gamePaused, showPauseMenu, score,
                           winner, running, ball, paddle1, paddle2, keys,
                           particles, seen, frame, ticks, keyEvents>>
       ELSE /\ showControls' = FALSE
            /\ showPauseMenu' = FALSE
            /\ \E d \in DrawSeqs :
                 Commit(TRUE, FALSE, ZeroScore, NULL, TRUE, Loop, seen, frame,
                        ticks, d)
  /\ UNCHANGED <<showSettings, points>>

\* The pause button.
PauseButton ==
  /\ gameStarted /\ ~showPauseMenu
  /\ InputSlot
  /\ showPauseMenu' = TRUE
  /\ UNCHANGED <<gameStarted, gamePaused, showControls, showSettings, score,
                 winner, running, ball, paddle1, paddle2, keys, particles,
                 seen, frame, ticks, points, keyEvents>>

\* handleResume, bound to "Resume" of the pause menu.
HandleResume ==
  /\ showPauseMenu
  /\ InputSlot
  /\ showPauseMenu' = FALSE
  /\ \E d \in DrawSeqs :
       Commit(gameStarted, FALSE, score, winner, FALSE, Loop, seen, frame, ticks, d)
  /\ UNCHANGED <<showControls, showSettings, points>>

\* "Settings" of the pause menu.
OpenSettings ==
  /\ showPauseMenu
  /\ InputSlot
  /\ showSettings' = TRUE
  /\ UNCHANGED <<gameStarted, gamePaused, showControls, showPauseMenu, score,
                 winner, running, ball, paddle1, paddle2, keys, particles,
                 seen, frame, ticks, points, keyEvents>>

\* The close button of the settings overlay.
CloseSettings ==
  /\ showSettings
  /\ InputSlot
  /\ showSettings' = FALSE
  /\ UNCHANGED <<gameStarted, gamePaused, showControls, showPauseMenu, score,
                 winner, running, ball, paddle1, paddle2, keys, particles,
                 seen, frame, ticks, points, keyEvents>>

\* A theme button or the sound-effects switch of the settings overlay, set
\* to a new value: settings.theme, or playSound, changes, both dependencies
\* of the game-loop effect, which is cleaned up and run again.  (The winner
\* effect runs again with playSound and records the winner the score already
\* has; the other settings touch nothing of the game.)
ChangeSettings ==
  /\ showSettings
  /\ InputSlot
  /\ IF gameStarted /\ ~gamePaused
       THEN \E d \in DrawSeqs : StartLoop(d, ticks, TRUE)
       ELSE UNCHANGED <<running, ball, paddle1, paddle2, keys, particles,
                        seen, frame, ticks>>
  /\ keyEvents' = Budget(ticks', keyEvents)
  /\ UNCHANGED <<gameStarted, gamePaused, showControls, showSettings,
                 showPauseMenu, score, winner, points>>

\* handleQuit without its setScore call.
HandleQuitKeepsScore ==
  /\ showPauseMenu
  /\ InputSlot
  /\ showPauseMenu' = FALSE
  /\ \E d \in DrawSeqs :
       Commit(FALSE, FALSE, score, NULL, FALSE, Loop, seen, frame, ticks, d)
  /\ UNCHANGED <<showControls, showSettings, points>>

\* handleQuit, bound to "Quit" of the pause menu.
HandleQuit ==
  /\ showPauseMenu
  /\ InputSlot
  /\ showPauseMenu' = FALSE
  /\ \E d \in DrawSeqs :
       Commit(FALSE, FALSE, ZeroScore, NULL, TRUE, Loop, seen, frame, ticks,
              d)
  /\ UNCHANGED <<showControls, showSettings, points>>

Next ==
  \/ Frame
  \/ PressEscape
  \/ \E k \in Keys \cup {"x"} : KeyDown(k)
  \/ \E k \in Keys \cup {"x"} : KeyUp(k)
  \/ HandleStart
  \/ PauseButton
  \/ HandleResume
  \/ OpenSettings
  \/ CloseSettings
  \/ ChangeSettings
  \/ HandleQuit

Spec == Init /\ [][Next]_vars

\* A match resumed at 14-14: the state right after the scoring frame that
\* made the score 14-14 (the game-loop effect has run again and called
\* gameLoop() once).  Every rally starts from Fresh whatever the score, so
\* the score is reached by 14 rallies won by each side.
MatchPoint == [player1 |-> WinScore - 1, player2 |-> WinScore - 1]

InitMatchPoint ==
  /\ gameStarted = TRUE /\ gamePaused = FALSE /\ showControls = FALSE
  /\ showSettings = FALSE /\ showPauseMenu = FALSE
  /\ score = MatchPoint
  /\ winner = NULL
  /\ running = TRUE
  /\ \E d \in DrawSeqs : \E u \in {update(Fresh, Keys0, d)} :
       /\ ball = u.ball /\ paddle1 = u.paddle1 /\ paddle2 = u.paddle2
       /\ particles = u.particles
  /\ keys = Keys0
  /\ seen = Fresh /\ frame = 1 /\ ticks = 1 /\ points = 0 /\ keyEvents = 0

SpecMatchPoint == InitMatchPoint /\ [][Next]_vars

\* A match played from the keyboard alone: after the clicks that start it the
\* only inputs are paddle keys, and handleKeyDown and handleKeyUp are explored
\* in the middle of a rally, after LateFrame frames of a run of the game loop,
\* when the ball is on its way to the right edge.
LateKeyDown(k) ==
  /\ running
  /\ frame = LateFrame /\ keyEvents < MaxKeyEvents
  /\ keys' = IF k \in Keys THEN [keys EXCEPT ![k] = TRUE] ELSE keys
  /\ keyEvents' = keyEvents + 1
  /\ UNCHANGED <<gameStarted, gamePaused, showControls, showSettings,
                 showPauseMenu, score, winner, running, ball, paddle1,
                 paddle2, particles, seen, frame, ticks, points>>

LateKeyUp(k) ==
  /\ running
  /\ frame = LateFrame /\ keyEvents < MaxKeyEvents
  /\ keys' = IF k \in Keys THEN [keys EXCEPT ![k] = FALSE] ELSE keys
  /\ keyEvents' = keyEvents + 1
  /\ UNCHANGED <<gameStarted, gamePaused, showControls, showSettings,
                 showPauseMenu, score, winner, running, ball, paddle1,
                 paddle2, particles, seen, frame, ticks, points>>

NextLateKeys ==
  \/ Frame
  \/ \E k \in Keys \cup {"x"} : LateKeyDown(k)
  \/ \E k \in Keys \cup {"x"} : LateKeyUp(k)
  \/ HandleStart

SpecLateKeys == Init /\ [][NextLateKeys]_vars

\* ----------------------------------------------------------------- phases
Idle ==
  /\ ~gameStarted /\ ~gamePaused /\ ~showControls /\ ~showPauseMenu
  /\ ~showSettings /\ winner = NULL
ControlsShown ==
  /\ ~gameStarted /\ ~gamePaused /\ showControls /\ ~showPauseMenu
  /\ ~showSettings /\ winner = NULL
Playing ==
  /\ gameStarted /\ ~gamePaused /\ ~showControls /\ ~showPauseMenu
  /\ ~showSettings /\ winner = NULL
Paused ==
  /\ gameStarted /\ gamePaused /\ ~showControls /\ showPauseMenu
  /\ ~showSettings /\ winner = NULL
SettingsOpen ==
  /\ gameStarted /\ gamePaused /\ ~showControls /\ showPauseMenu
  /\ showSettings /\ winner = NULL
GameOver ==
  /\ ~gameStarted /\ ~gamePaused /\ ~showControls /\ ~showPauseMenu
  /\ ~showSettings /\ winner # NULL

\* The pause menu (or the settings overlay opened from it) is presented
\* during a game, however it was entered.
MenuShown == gameStarted /\ showPauseMenu

\* ----------------------------------------------------------------- claims
\* C1: while the pause menu or the settings overlay is presented during a
\* game, whether entered by Escape or by the pause button, no frame runs:
\* ball, paddles, particles and score do not change until a resume.
C1_SuspendedWhilePaused ==
  [][(MenuShown /\ MenuShown')
       => UNCHANGED <<ball, paddle1, paddle2, particles, score>>]_vars

\* C2: a resume from Paused continues from the suspended state: the ball,
\* the paddles and the particles seen by the first frame after the resume are
\* those of the moment of pausing.
C2_ResumeContinues ==
  [][(Paused /\ HandleResume) => seen' = Loop]_vars

\* C3: from GameOver one play-again intent leads directly to Playing with
\* both scores 0 and the winner cleared.
C3_PlayAgainDirect ==
  [][(GameOver /\ HandleStart)
       => Playing' /\ running' /\ score' = ZeroScore]_vars

\* C4: a frame in which the moved ball is fully past the left boundary adds
\* exactly 1 to player2 and nothing to player1, one fully past the right
\* boundary adds exactly 1 to player1 and nothing to player2, any other frame
\* leaves the score alone; after a scoring frame the ball is inside the
\* bounds again, so the next frame cannot count the same pass.
C4_OneIncrementPerCrossing ==
  [][LET x == FAdd(ball.x, ball.dx)
         inside == /\ ~FLt(FSub(ball'.x, FInt(Radius)), Zero)
                   /\ ~FGt(FAdd(ball'.x, FInt(Radius)), FInt(Width))
     IN  ((CrossesLeft(x) \/ CrossesRight(x) \/ score' # score) /\ Frame)
           => /\ CrossesLeft(x)
                   => score' = [score EXCEPT !.player2 = @ + 1] /\ inside
              /\ CrossesRight(x)
                   => score' = [score EXCEPT !.player1 = @ + 1] /\ inside
              /\ (~CrossesLeft(x) /\ ~CrossesRight(x)) => score' = score]_vars

C4_BothSidesScored ==
  /\ score = [player1 |-> 1, player2 |-> 1]
  /\ points = 2
  /\ ball.x[1] = Width \div 2

\* C5: the step that brings a counter to 15 records that side as the winner
\* ("Player 1" for player1, "Player 2" for player2) while the other counter
\* is below 15, clears gameStarted and stops the loop, and takes Playing to
\* GameOver; no winner is recorded while both counters are below 15.
C5_FirstToFifteenWins ==
  [][/\ (score.player1 < WinScore /\ score'.player1 >= WinScore)
          => /\ winner' = "Player 1" /\ score'.player2 < WinScore
             /\ ~gameStarted' /\ ~running'
             /\ Playing => GameOver'
     /\ (score.player2 < WinScore /\ score'.player2 >= WinScore)
          => /\ winner' = "Player 2" /\ score'.player1 < WinScore
             /\ ~gameStarted' /\ ~running'
             /\ Playing => GameOver'
     /\ (score'.player1 < WinScore /\ score'.player2 < WinScore)
          => winner' = NULL]_vars

C5_PlayerTwoWon ==
  /\ GameOver
  /\ winner = "Player 2"
  /\ score = [player1 |-> WinScore - 1, player2 |-> WinScore]

\* C6: while a winner is recorded the loop is stopped, and as long as the
\* winner stays recorded (until a start / play-again intent clears it) no
\* step changes the ball, the paddles, the particles or the score.
C6_FrozenAfterWinner ==
  [][winner # NULL
       => /\ ~running
          /\ winner' # NULL
               => /\ ~running'
                  /\ UNCHANGED <<ball, paddle1, paddle2, particles, score>>]_vars

C6_WinnerThenClick ==
  /\ winner = "Player 1"
  /\ showControls
  /\ ~running
  /\ score.player1 = WinScore

\* C7: the rally after a point starts with the ball at (400, 300), vertical
\* velocity 0.3 and horizontal velocity 0.3 in magnitude pointing to the side
\* scored against: to the left (-0.3) after player2 scored, to the right
\* (0.3) after player1 scored.
C7_ServeTowardsConceder ==
  [][(Frame /\ score' # score) =>
       /\ seen'.ball.x = FInt(Width \div 2)
       /\ seen'.ball.y = FInt(Height \div 2)
       /\ seen'.ball.dy = BallSpeed
       /\ seen'.ball.dx = IF score'.player2 # score.player2
                            THEN FNeg(BallSpeed) ELSE BallSpeed]_vars

\* C8: both paddles stay within [0, Height - paddleHeight] = [0, 500].
C8_PaddlesInRange ==
  /\ ~FLt(paddle1.y, Zero) /\ ~FGt(paddle1.y, FInt(Height - paddleHeight))
  /\ ~FLt(paddle2.y, Zero) /\ ~FGt(paddle2.y, FInt(Height - paddleHeight))

\* C9: the session flags always encode exactly one of the six phases; the
\* pause menu is never presented while the frame loop runs or while a winner
\* is displayed, and the controls help is never shown with a winner.
C9_ExactlyOnePhase ==
  /\ Cardinality({p \in 1..6 :
       <<Idle, ControlsShown, Playing, Paused, SettingsOpen, GameOver>>[p]})
       = 1
  /\ running => ~showPauseMenu
  /\ winner # NULL => ~showPauseMenu /\ ~showControls

\* C10: the quit intent in Paused yields Idle with the score 0-0, no winner
\* and the loop not running.
C10_QuitToIdle ==
  [][(Paused /\ HandleQuit)
       => Idle' /\ score' = ZeroScore /\ winner' = NULL /\ ~running']_vars

C10_QuitAfterPoint ==
  /\ Idle
  /\ points >= 1
  /\ score = ZeroScore
  /\ ~running

\* C11: the start intent in Idle shows the controls and neither starts the
\* loop nor changes the score or the game objects; the start intent in
\* ControlsShown leads to Playing with the loop running, the score 0-0 and no
\* winner.
C11_StartThenConfirm ==
  [][/\ (Idle /\ HandleStart)
          => /\ ControlsShown' /\ ~running'
             /\ UNCHANGED <<score, ball, paddle1, paddle2, particles>>
     /\ (ControlsShown /\ HandleStart)
          => Playing' /\ running' /\ score' = ZeroScore /\ winner' = NULL]_vars

C11_StartedByConfirm ==
  /\ Playing /\ running
  /\ frame = 1 /\ points = 0
  /\ score = ZeroScore

\* C12: a settings change leaves the ball, the paddles, the particles and
\* the score as they were, wherever the settings controls can be operated.
C12_SettingsLeaveSimulation ==
  [][ChangeSettings
       => UNCHANGED <<ball, paddle1, paddle2, particles, score>>]_vars

\* C13: a scoring frame resets only the ball: the key flags are kept, and
\* the rally after the point starts with the paddles where the scoring frame
\* left them.
C13_PointResetsBallOnly ==
  [][(score' # score /\ Frame) =>
       /\ keys' = keys
       /\ seen'.paddle1.y = MovePaddle(paddle1.y, keys["w"], keys["s"])
       /\ seen'.paddle2.y
            = MovePaddle(paddle2.y, keys["ArrowUp"], keys["ArrowDown"])]_vars

\* C14: a frame that scores no point flips the vertical velocity of the ball
\* exactly when the edge of the moved ball is past the top or the bottom
\* boundary, and after a flip the next move of the ball leaves its edge
\* within both boundaries, so the same touch is not flipped again.
C14_OneFlipPerTouch ==
  [][LET y1 == FAdd(ball.y, ball.dy)
         touch == \/ FGt(FAdd(y1, FInt(Radius)), FInt(Height))
                  \/ FLt(FSub(y1, FInt(Radius)), Zero)
         y2 == FAdd(ball'.y, ball'.dy)
         again == \/ FGt(FAdd(y2, FInt(Radius)), FInt(Height))
                  \/ FLt(FSub(y2, FInt(Radius)), Zero)
     IN  ((touch \/ ball'.dy # ball.dy) /\ score' = score /\ Frame)
           => touch /\ ball'.dy = FNeg(ball.dy) /\ ~again]_vars

C14_FlippedAtTop ==
  /\ running
  /\ seen.ball.dy = FNeg(BallSpeed)
  /\ ball.dy = BallSpeed
  /\ ball.y[1] < Radius

\* C15: after a frame every particle that was live and stays live has lost
\* exactly Decay of its life, a particle whose life reached 0 or less is
\* gone, the particles behind them are the ones spawned in the frame, with
\* life 1 advanced once, and every life lies in (0, 1].
C15_ParticleLife ==
  [][((particles # <<>> \/ particles' # <<>>) /\ score' = score /\ Frame)
       => \E aged \in {[n \in 1..Len(particles) |->
                          FSub(particles[n].life, Decay)]} :
          \E kept \in {SelectSeq(aged, LAMBDA l : FGt(l, Zero))} :
            /\ Len(particles') >= Len(kept)
            /\ \A n \in 1..Len(particles') :
                 /\ FGt(particles'[n].life, Zero)
                 /\ ~FGt(particles'[n].life, FInt(1))
                 /\ particles'[n].life
                      = IF n <= Len(kept) THEN kept[n]
                        ELSE FSub(FInt(1), Decay)
            /\ \A n \in 1..Len(particles) :
                 FLt(aged[n], particles[n].life)]_vars

C15_AlmostGone ==
  /\ running
  /\ Len(particles) = WallBurst
  /\ FLt(particles[1].life, Decay)

\* C16: a key press or release writes the flag of its key only when the key
\* is tracked, to TRUE on a press and FALSE on a release, leaves the other
\* flags alone, and changes nothing of the ball, the paddles, the particles,
\* the score, the winner or the session flags; an untracked key changes no
\* flag at all.
C16_KeysOnlyWriteFlags ==
  [][\A k \in Keys \cup {"x"} :
       LET rest == /\ UNCHANGED <<ball, paddle1, paddle2, particles, score,
                                  winner, gameStarted, gamePaused,
                                  showControls, showSettings, showPauseMenu,
                                  running>>
                   /\ \A j \in Keys \ {k} : keys'[j] = keys[j]
                   /\ k \notin Keys => keys' = keys
       IN  /\ KeyDown(k) => rest /\ (k \in Keys => keys'[k])
           /\ KeyUp(k) => rest /\ (k \in Keys => ~keys'[k])]_vars

C16_KeyHeld ==
  /\ running
  /\ keyEvents = 1
  /\ keys = [Keys0 EXCEPT !["ArrowUp"] = TRUE]
  /\ ball = update(Fresh, Keys0, CHOOSE d \in DrawSeqs : TRUE).ball

\* C17: an intent the transition table does not define for the current phase
\* leaves the session flags, the score and the winner unchanged.  The table
\* defines start in Idle, ControlsShown and GameOver, Escape and the pause
\* request in Playing, resume, open-settings and quit in Paused, and close
\* in SettingsOpen.
C17_UndefinedIntentNoOp ==
  [][(\/ /\ Idle \/ ControlsShown \/ GameOver
         /\ \/ PressEscape \/ PauseButton \/ HandleResume \/ OpenSettings
            \/ CloseSettings \/ HandleQuit
      \/ /\ Playing
         /\ \/ HandleStart \/ HandleResume \/ OpenSettings \/ CloseSettings
            \/ HandleQuit
      \/ /\ Paused
         /\ HandleStart \/ PressEscape \/ PauseButton \/ CloseSettings
      \/ /\ SettingsOpen
         /\ \/ HandleStart \/ PressEscape \/ PauseButton \/ HandleResume
            \/ OpenSettings \/ HandleQuit)
       => UNCHANGED <<gameStarted, gamePaused, showControls, showSettings,
                      showPauseMenu, score, winner>>]_vars

\* C18: the ball's velocity components are always 0.3 in magnitude: dx and
\* dy are each 0.3 or -0.3 in every state.
C18_ConstantSpeed ==
  /\ ball.dx \in {BallSpeed, FNeg(BallSpeed)}
  /\ ball.dy \in {BallSpeed, FNeg(BallSpeed)}

C18_BothFlipped ==
  /\ running
  /\ ball.dx = FNeg(BallSpeed)
  /\ ball.dy = FNeg(BallSpeed)
  /\ score = ZeroScore /\ points = 0

\* C19: a frame moves the paddles, then the ball, then resolves the wall and
\* the paddle collision on the moved ball and paddles, then advances the
\* particles once: in a frame that scores no point, the 10 particles of a
\* wall hit and the 15 of a paddle hit are the last of the collection at the
\* end of the frame, each with life 1 advanced once and at the position of
\* the moved ball advanced once by the particle's velocity, and no other
\* particle has that life.
C19_BurstAdvancedOnce ==
  [][LET x1 == FAdd(ball.x, ball.dx)
         y1 == FAdd(ball.y, ball.dy)
         p1 == MovePaddle(paddle1.y, keys["w"], keys["s"])
         p2 == MovePaddle(paddle2.y, keys["ArrowUp"], keys["ArrowDown"])
         n == (IF HitsWall(y1) THEN WallBurst ELSE 0)
                + (IF HitsPaddle(x1, y1, p1, p2) THEN PaddleBurst ELSE 0)
         len == Len(particles')
     IN  (n > 0 /\ score' = score /\ Frame)
           => /\ len >= n
              /\ \A i \in 1..len :
                   IF i > len - n
                     THEN /\ particles'[i].life = FSub(FInt(1), Decay)
                          /\ particles'[i].x = FAdd(x1, particles'[i].dx)
                          /\ particles'[i].y = FAdd(y1, particles'[i].dy)
                     ELSE particles'[i].life # FSub(FInt(1), Decay)]_vars

C19_PaddleBurstSpawned ==
  /\ running
  /\ Len(particles) = PaddleBurst
  /\ particles[PaddleBurst].life = FSub(FInt(1), Decay)
  /\ ball.dx # seen.ball.dx

\* C20: neither counter ever exceeds the win threshold 15, and the two
\* counters are never both at 15.
C20_ScoreWithinThreshold ==
  /\ score.player1 <= WinScore
  /\ score.player2 <= WinScore
  /\ ~(score.player1 = WinScore /\ score.player2 = WinScore)

C20_PlayerOneAtThreshold ==
  /\ score = [player1 |-> WinScore, player2 |-> WinScore - 1]
  /\ winner = "Player 1"
  /\ ~running /\ ~gameStarted

\* C21: a paddle hit sends the ball away from that paddle.  In every frame
\* that scores no point and in which the left-paddle collision condition
\* holds for the moved ball and the moved paddles, the ball's horizontal
\* velocity at the end of the frame is positive; when the right-paddle
\* condition holds, it is negative.
C21_HitSendsBallAway ==
  [][LET x1 == FAdd(ball.x, ball.dx)
         y1 == FAdd(ball.y, ball.dy)
         p1 == MovePaddle(paddle1.y, keys["w"], keys["s"])
         p2 == MovePaddle(paddle2.y, keys["ArrowUp"], keys["ArrowDown"])
         left == /\ FLt(FSub(x1, FInt(Radius)), FInt(paddleWidth))
                 /\ FGt(y1, p1)
                 /\ FLt(y1, FAdd(p1, FInt(paddleHeight)))
         right == /\ FGt(FAdd(x1, FInt(Radius)), FInt(Width - paddleWidth))
                  /\ FGt(y1, p2)
                  /\ FLt(y1, FAdd(p2, FInt(paddleHeight)))
     IN  ((left \/ right) /\ score' = score /\ Frame)
           => /\ left => FGt(ball'.dx, Zero)
              /\ right => FLt(ball'.dx, Zero)]_vars

====
